---- MODULE Spec2Model ----
(***************************************************************************)
(* Model of the travel itinerary pipeline of server/travel:                *)
(*   service.py        TravelPlanningService (generate_itinerary,          *)
(*                     _prepare_agent_input, _enrich_with_coordinates,     *)
(*                     _generate_markdown_description)                     *)
(*   output_parser.py  TravelItineraryParser (parse, _normalize_ratings,   *)
(*                     _extract_json, _extract_json_from_text)             *)
(*   agent.py          SimpleToolAgent (_execute_tool, invoke),            *)
(*                     create_itinerary_agent_with_parser                  *)
(*   schemas.py        ItineraryReport, DayPlan, Activity, Location,       *)
(*                     Accommodation, TravelPlanRequest, TravelPlanResponse*)
(*   tools.py          the six search adapters                             *)
(*   router.py         generate_travel_plan, travel_health_check           *)
(*                                                                         *)
(* Three specifications share the variables.  Spec follows one call of     *)
(* the endpoint after another: generate_itinerary through its stages,      *)
(* then the answer of the endpoint; SpecShared interleaves several calls   *)
(* and the health check on the shared service at the awaits of the         *)
(* coroutines; SpecTools calls the adapters in any order against a search  *)
(* provider that may fail.                                                 *)
(*                                                                         *)
(* Units.  Ratings are counted in tenths (45 is 4.5, 120 is 12.0), clock   *)
(* readings in hundredths of a second, so round(x, 2) of a difference of   *)
(* two readings is the difference itself.  The origin of the clock is the  *)
(* reading taken when the call under way started: only differences of      *)
(* readings reach the response.  An Optional value is a set: {} is None    *)
(* and {v} is the value v.  Generated text is a sequence of                *)
(* tokens: "FENCE_JSON" and "FENCE" (the code fence markers, with and      *)
(* without the json tag), " " (whitespace), "x" (prose), "{", "}",         *)
(* "M" (the members of the JSON object that the data record describes)     *)
(* and "7" (a JSON scalar).                                                *)
(***************************************************************************)
EXTENDS Integers, Sequences, FiniteSets, TLC

\* ---------------------------------------------------------------- bounds
\* days of a report and of a request; largest clock reading; concurrent
\* callers of the service; adapter calls of one reasoning loop
MaxDays == 2
MaxClock == 1
MaxRequesters == 3
MaxAdapterCalls == 2

\* ------------------------------------------------------- optional values
None == {}
Some(v) == {v}
IsNone(x) == x = {}
Val(x) == CHOOSE v \in x : TRUE

\* Python truthiness of an Optional[float]: None and 0.0 are both falsy.
Truthy(x) == ~IsNone(x) /\ Val(x) # 0

\* ----------------------------------------------------------- exceptions
Exc(t, m) == [type |-> t, msg |-> m]

\* The classes derived from Exception that the pipeline's stages raise.
ExceptionClasses ==
    {"ValueError", "AttributeError", "TypeError", "KeyError", "JSONDecodeError",
     "ValidationError", "Exception"}

\* service.py:116  except Exception as e
CatchesOnlyValueError(e) == e.type \in {"ValueError", "JSONDecodeError"}
Catches(e) == e.type \in ExceptionClasses

\* ------------------------------------------------- output_parser.py text
Tokens == {"FENCE_JSON", "FENCE", " ", "x", "{", "}", "M", "7"}

RECURSIVE LStrip(_)
LStrip(t) == IF t # <<>> /\ Head(t) = " " THEN LStrip(Tail(t)) ELSE t

RECURSIVE RStrip(_)
RStrip(t) ==
    IF t # <<>> /\ t[Len(t)] = " " THEN RStrip(SubSeq(t, 1, Len(t) - 1)) ELSE t

\* str.strip()
Strip(t) == RStrip(LStrip(t))

\* output_parser.py:108-122.  The tagged marker also starts with the bare
\* marker, but the elif only runs when the first test failed.
ExtractJson(text) ==
    LET t0 == Strip(text)
        t1 == IF t0 # <<>> /\ Head(t0) = "FENCE_JSON" THEN Tail(t0)
              ELSE IF t0 # <<>> /\ Head(t0) = "FENCE" THEN Tail(t0)
              ELSE t0
        t2 == IF t1 # <<>> /\ t1[Len(t1)] = "FENCE"
              THEN SubSeq(t1, 1, Len(t1) - 1)
              ELSE t1
    IN  Strip(t2)

\* output_parser.py:124-133: text[find("{") : rfind("}") + 1], or None.
Find(t, c) ==
    IF \E i \in 1..Len(t) : t[i] = c
    THEN CHOOSE i \in 1..Len(t) : t[i] = c /\ \A j \in 1..(i - 1) : t[j] # c
    ELSE 0
RFind(t, c) ==
    IF \E i \in 1..Len(t) : t[i] = c
    THEN CHOOSE i \in 1..Len(t) : t[i] = c /\ \A j \in (i + 1)..Len(t) : t[j] # c
    ELSE 0
ExtractJsonFromTextLastOpen(text) ==
    LET start == RFind(text, "{")
        end == RFind(text, "}")
    IN  IF start # 0 /\ end # 0 /\ end > start
        THEN Some(SubSeq(text, start, end))
        ELSE None
ExtractJsonFromText(text) ==
    LET start == Find(text, "{")
        end == RFind(text, "}")
    IN  IF start # 0 /\ end # 0 /\ end > start
        THEN Some(SubSeq(text, start, end))
        ELSE None

\* json.loads: whitespace between JSON tokens is insignificant; the text
\* decodes when it is one object or one scalar and nothing else.
RECURSIVE NoWs(_)
NoWs(t) ==
    IF t = <<>> THEN <<>>
    ELSE IF Head(t) = " " THEN NoWs(Tail(t))
    ELSE <<Head(t)>> \o NoWs(Tail(t))

EmptyMapping ==
    [kind |-> "dict", summary |-> FALSE, total_days |-> 0, day_plans |-> <<>>,
     top_attractions |-> <<>>, must_visit_places |-> <<>>,
     accommodation_recommendations |-> <<>>,
     markdown_description |-> None, created_at |-> None]
ScalarValue == [kind |-> "scalar"]

JsonLoads(t, data) ==
    LET u == NoWs(t) IN
    IF u = <<"{", "M", "}">> THEN [ok |-> TRUE, value |-> data]
    ELSE IF u = <<"{", "}">> THEN [ok |-> TRUE, value |-> EmptyMapping]
    ELSE IF u = <<"7">> THEN [ok |-> TRUE, value |-> ScalarValue]
    ELSE [ok |-> FALSE, value |-> ScalarValue]

\* ------------------------------------------ output_parser.py normalization
\* Odd tenths t above 50 for which Python float round((t/10)/2, 1) rounds up
\* (binary floating point decides each case; 6.5/2 = 3.25 is exact and
\* rounds half to even, 8.9/2 = 4.45000000000000017... rounds up).
RoundsUp ==
    {55, 57, 59, 67, 69, 75, 77, 79, 83, 89, 93, 95, 99, 103, 109, 113, 115,
     119, 123, 129, 133, 135, 139, 143, 149}

\* round(rating / 2, 1), in tenths
RoundHalf(t) ==
    IF t % 2 = 0 THEN t \div 2
    ELSE IF t \in RoundsUp THEN (t + 1) \div 2
    ELSE (t - 1) \div 2

\* output_parser.py:77-80 (and 85-88, 93-96, 101-104)
NormalizeRating(r) ==
    IF IsNone(r) THEN r
    ELSE IF Val(r) > 50 THEN Some(RoundHalf(Val(r)))
    ELSE r

NormalizeLocation(l) == [l EXCEPT !.rating = NormalizeRating(l.rating)]
NormalizeActivity(a) == [a EXCEPT !.location = NormalizeLocation(a.location)]
NormalizeDayPlan(dp) ==
    [dp EXCEPT !.activities =
        [i \in 1..Len(dp.activities) |-> NormalizeActivity(dp.activities[i])]]
NormalizeList(s) == [i \in 1..Len(s) |-> NormalizeLocation(s[i])]
NormalizeAccommodations(s) ==
    [i \in 1..Len(s) |-> [s[i] EXCEPT !.rating = NormalizeRating(s[i].rating)]]

\* output_parser.py:56-106
NormalizeRatingsSkipAccommodation(data) ==
    IF data.kind # "dict" THEN data
    ELSE [data EXCEPT
            !.day_plans = [i \in 1..Len(data.day_plans) |-> NormalizeDayPlan(data.day_plans[i])],
            !.top_attractions = NormalizeList(data.top_attractions),
            !.must_visit_places = NormalizeList(data.must_visit_places)]
NormalizeRatings(data) ==
    IF data.kind # "dict" THEN data
    ELSE [data EXCEPT
            !.day_plans = [i \in 1..Len(data.day_plans) |-> NormalizeDayPlan(data.day_plans[i])],
            !.top_attractions = NormalizeList(data.top_attractions),
            !.must_visit_places = NormalizeList(data.must_visit_places),
            !.accommodation_recommendations =
                NormalizeAccommodations(data.accommodation_recommendations)]

\* ------------------------------------------------------ schemas.py checks
\* schemas.py:58 and :100  Optional[float] = Field(None, ge=0, le=5)
RatingFieldNoUpperBound(r) == IsNone(r) \/ Val(r) >= 0
RatingField(r) == IsNone(r) \/ (Val(r) >= 0 /\ Val(r) <= 50)

\* schemas.py:52-62
LocationValid(l) == RatingField(l.rating)
\* schemas.py:65-77
ActivityValid(a) == LocationValid(a.location)
\* schemas.py:80-90  day_number: int = Field(..., ge=1)
DayPlanValid(dp) ==
    /\ dp.day_number >= 1
    /\ \A i \in 1..Len(dp.activities) : ActivityValid(dp.activities[i])
\* schemas.py:93-105
AccommodationValid(a) == RatingField(a.rating)

\* schemas.py:117-154  ItineraryReport(**data)
ItineraryReportValid(data) ==
    /\ data.summary
    /\ data.total_days >= 1
    /\ Len(data.day_plans) >= 1
    /\ \A i \in 1..Len(data.day_plans) : DayPlanValid(data.day_plans[i])
    /\ \A i \in 1..Len(data.top_attractions) : LocationValid(data.top_attractions[i])
    /\ \A i \in 1..Len(data.must_visit_places) : LocationValid(data.must_visit_places[i])
    /\ \A i \in 1..Len(data.accommodation_recommendations) :
            AccommodationValid(data.accommodation_recommendations[i])

\* The report object built from a validated mapping; markdown_description
\* and created_at are declared fields (schemas.py:150, 154), None unless
\* the mapping has them.
ItineraryReport(data) ==
    [total_days |-> data.total_days,
     day_plans |-> data.day_plans,
     top_attractions |-> data.top_attractions,
     must_visit_places |-> data.must_visit_places,
     accommodation_recommendations |-> data.accommodation_recommendations,
     markdown_description |-> data.markdown_description,
     created_at |-> data.created_at]

\* output_parser.py:20-54  TravelItineraryParser.parse.  The result is the
\* report, or the exception that leaves parse; norm is the mapping after
\* _normalize_ratings when that line was reached.
Parsed(d) == [ok |-> TRUE, report |-> Some(ItineraryReport(d)), exc |-> None, norm |-> Some(d)]
ParseRaisesGeneric(t, m, n) ==
    [ok |-> FALSE, report |-> None, exc |-> Some(Exc("ValueError", "Failed to parse")), norm |-> n]
ParseRaises(t, m, n) == [ok |-> FALSE, report |-> None, exc |-> Some(Exc(t, m)), norm |-> n]

ParseFallbackUnnormalized(text, data) ==
    LET t1 == ExtractJson(text)
        l1 == JsonLoads(t1, data)
    IN  IF l1.ok
        THEN LET d == NormalizeRatings(l1.value) IN
             IF d.kind = "dict" /\ ItineraryReportValid(d)
             THEN Parsed(d)
             \* TypeError or ValidationError, caught by line 53
             ELSE ParseRaises("ValueError", "Failed to parse itinerary", Some(d))
        \* line 45: json.JSONDecodeError
        ELSE LET js == ExtractJsonFromText(t1) IN
             IF IsNone(js)
             THEN ParseRaises("ValueError", "Failed to parse JSON from output", None)
             ELSE LET l2 == JsonLoads(Val(js), data) IN
                  IF ~l2.ok
                  THEN ParseRaises("JSONDecodeError", "Expecting value", None)
                  ELSE LET d == l2.value IN
                       IF ItineraryReportValid(d)
                       THEN Parsed(d)
                       ELSE ParseRaises("ValidationError", "validation errors for ItineraryReport", Some(d))
Parse(text, data) ==
    LET t1 == ExtractJson(text)
        l1 == JsonLoads(t1, data)
    IN  IF l1.ok
        THEN LET d == NormalizeRatings(l1.value) IN
             IF d.kind = "dict" /\ ItineraryReportValid(d)
             THEN Parsed(d)
             \* TypeError or ValidationError, caught by line 53
             ELSE ParseRaises("ValueError", "Failed to parse itinerary", Some(d))
        \* line 45: json.JSONDecodeError
        ELSE LET js == ExtractJsonFromText(t1) IN
             IF IsNone(js)
             THEN ParseRaises("ValueError", "Failed to parse JSON from output", None)
             ELSE LET l2 == JsonLoads(Val(js), data) IN
                  IF ~l2.ok
                  THEN ParseRaises("JSONDecodeError", "Expecting value", None)
                  ELSE LET d == NormalizeRatings(l2.value) IN
                       IF ItineraryReportValid(d)
                       THEN Parsed(d)
                       ELSE ParseRaises("ValidationError", "validation errors for ItineraryReport", Some(d))

\* ------------------------------------------------------------- inputs
\* Ratings (tenths) and coordinates the generation output may carry.
RatingInputs == {None, {-10}, {0}, {50}, {51}, {89}, {100}, {101}, {120}}
CoordInputs == {None, {0}, {27}}

Loc(r, la, lo) == [rating |-> r, latitude |-> la, longitude |-> lo]
LocationInputs ==
    {Loc(r, None, None) : r \in RatingInputs}
        \cup {Loc(None, la, lo) : la \in CoordInputs, lo \in CoordInputs}

DayPlanOf(n, acts) == [day_number |-> n, activities |-> acts]
Mapping(sm, td, dps, att, mv, acc) ==
    [kind |-> "dict", summary |-> sm, total_days |-> td, day_plans |-> dps,
     top_attractions |-> att, must_visit_places |-> mv,
     accommodation_recommendations |-> acc,
     markdown_description |-> None, created_at |-> None]

DayNumberSeqs == UNION {[1..n -> 0..MaxDays] : n \in 0..MaxDays}
PlainDays(ns) == [i \in 1..Len(ns) |-> DayPlanOf(ns[i], <<>>)]
\* n well-formed day plans, the first one with the activities acts
GoodDays(n, acts) == [i \in 1..n |-> DayPlanOf(i, IF i = 1 THEN acts ELSE <<>>)]

\* Mappings that vary the day structure and carry no place.
StructureData ==
    {Mapping(TRUE, td, PlainDays(ns), <<>>, <<>>, <<>>) :
        td \in 0..MaxDays, ns \in DayNumberSeqs}
        \cup {Mapping(FALSE, 1, PlainDays(<<1>>), <<>>, <<>>, <<>>)}
\* Well-formed day structures with one place in one of the four lists.
PlaceData ==
    UNION {
        {Mapping(TRUE, n, GoodDays(n, <<[location |-> l]>>), <<>>, <<>>, <<>>) : l \in LocationInputs}
        \cup {Mapping(TRUE, n, GoodDays(n, <<>>), <<l>>, <<>>, <<>>) : l \in LocationInputs}
        \cup {Mapping(TRUE, n, GoodDays(n, <<>>), <<>>, <<l>>, <<>>) : l \in LocationInputs}
        \cup {Mapping(TRUE, n, GoodDays(n, <<>>), <<>>, <<>>, <<[rating |-> r]>>) : r \in RatingInputs}
        : n \in 1..MaxDays}
\* One-day reports with two places to look up: an activity location and a
\* must-visit place, or two top attractions.
TwoPlaceData ==
    {Mapping(TRUE, 1, GoodDays(1, <<[location |-> Loc(None, None, None)]>>), <<>>,
             <<Loc(None, None, None)>>, <<>>),
     Mapping(TRUE, 1, GoodDays(1, <<>>), <<Loc(None, None, None), Loc(None, None, None)>>,
             <<>>, <<>>)}
\* A description and a timestamp written by the generation itself: a text
\* the synthesizer gives for no valid report (its duration is 0) and a
\* timestamp that is no reading of the clock.
GeneratedMarkdown ==
    [duration |-> 0, days |-> <<>>, attractions |-> <<>>, places |-> <<>>,
     accommodations |-> <<>>]
GeneratedTimestamp == -1
\* One-day reports that come with the two fields filled in, without a
\* place and with a place to look up.
StampedData ==
    {[Mapping(TRUE, 1, GoodDays(1, <<>>), att, <<>>, <<>>) EXCEPT
        !.markdown_description = Some(GeneratedMarkdown),
        !.created_at = Some(GeneratedTimestamp)] : att \in {<<>>, <<Loc(None, None, None)>>}}
DataInputs == StructureData \cup PlaceData \cup TwoPlaceData \cup StampedData

BareObject == <<"{", "M", "}">>
FencedObject == <<"FENCE_JSON", " ", "{", "M", "}", " ", "FENCE">>
WrappedObject == <<"x", " ", "{", "M", "}", " ", "x">>
\* the object after prose that has braces of its own
ProseWithBraces == <<"x", "{", "x", "}", " ", "{", "M", "}">>
\* Texts without any JSON object
NoObjectTexts == {<<>>, <<"x", " ", "x">>, <<"x", "{", "x", "}">>, <<"}", "x", "{">>, <<"7">>}

Out(t, d) == [text |-> t, data |-> d]
\* What the generation client may answer: every mapping as a bare object,
\* a few mappings inside a fence or inside prose, and texts without object.
FewData ==
    {Mapping(TRUE, n, GoodDays(m, <<>>), <<Loc(r, None, None)>>, <<>>, <<>>) :
        n \in {1}, m \in {1, MaxDays}, r \in {{89}, {120}}}
LLMOutputs ==
    {Out(BareObject, d) : d \in DataInputs}
        \cup {Out(t, d) : t \in {FencedObject, WrappedObject, ProseWithBraces}, d \in FewData}
        \cup {Out(t, EmptyMapping) : t \in NoObjectTexts}

\* ------------------------------------------------ tools.py adapters
\* The six adapters of tools.py and the geocoding adapter.
SearchAdapters ==
    {"search_travel_information", "get_place_ratings", "compare_prices",
     "rank_attractions_by_category", "get_weather_info", "get_local_customs_tips"}
Adapters == SearchAdapters \cup {"get_place_coordinates"}

\* What the search provider does during one adapter call: its package
\* cannot be imported, the query raises, the results are not mappings, the
\* image query raises (search_travel_information only), there is no
\* result, no result has the keywords the adapter filters on, or there are
\* results.
ProviderBehaviours ==
    {"import_error", "query_raises", "malformed_results", "images_raise",
     "no_results", "no_relevant_results", "results"}
ProviderFailures == {"import_error", "query_raises", "malformed_results"}

\* tools.py:64, 102, 141, 175, 214, 246  the prefix of the diagnostic string
ErrorPrefix(a) ==
    CASE a = "search_travel_information" -> "Error searching: "
      [] a = "get_place_ratings" -> "Error getting ratings: "
      [] a = "compare_prices" -> "Error comparing prices: "
      [] a = "rank_attractions_by_category" -> "Error ranking attractions: "
      [] a = "get_weather_info" -> "Error getting weather: "
      [] a = "get_local_customs_tips" -> "Error getting local customs: "

\* the adapters that keep only results with certain keywords
\* (tools.py:94, 133, 206)
FilteringAdapters == {"get_place_ratings", "compare_prices", "get_weather_info"}

Returns(kind, text) == [raised |-> FALSE, kind |-> kind, text |-> text]
Raises(text) == [raised |-> TRUE, kind |-> "exception", text |-> text]

\* tools.py:9-246: the body of each adapter is one try block whose handler
\* returns the diagnostic string; search_travel_information also swallows
\* what its image query raises (tools.py:35-38).
SearchAdapterResultUncaught(a, b) ==
    IF b \in ProviderFailures THEN Raises("provider error")
    ELSE Returns("text", "results")
SearchAdapterResult(a, b) ==
    IF b \in ProviderFailures THEN Returns("diagnostic", ErrorPrefix(a))
    ELSE IF b = "no_results" THEN Returns("empty", "not found")
    ELSE IF b = "no_relevant_results" /\ a \in FilteringAdapters
    THEN Returns("empty", "not readily available")
    ELSE Returns("text", "results")

\* The geocoding adapter: a "lat,lng" string, or null on any failure.
GeocodeAdapterResult(b) ==
    IF b \in {"results", "images_raise"} THEN Returns("text", "lat,lng")
    ELSE Returns("empty", "null")

AdapterResult(a, b) ==
    IF a \in SearchAdapters THEN SearchAdapterResult(a, b) ELSE GeocodeAdapterResult(b)

\* ------------------------------------------------ agent.py SimpleToolAgent
\* The tool invocations of one run of SimpleToolAgent.invoke.  The second
\* rank call is the string-query fallback made when the first one raised.
ToolCalls == {"search", "rank", "rank_fallback", "weather", "customs"}

\* agent.py:83-101  _execute_tool: the str of the result, or the inline
\* note "Tool error: ..." when tool.invoke raised.
ExecuteToolPropagates(call, failing) ==
    IF call \in failing THEN [ok |-> FALSE, raised |-> TRUE] ELSE [ok |-> TRUE, raised |-> FALSE]
ExecuteTool(call, failing) ==
    IF call \in failing THEN [ok |-> FALSE, raised |-> FALSE] ELSE [ok |-> TRUE, raised |-> FALSE]

Note(label, r) == [label |-> label, error |-> ~r.ok]

\* agent.py:118-162: the calls made, the notes accumulated in tool_results
\* and whether an exception left a tool step (a step whose try absorbs it
\* adds no note).
RunToolsSearchesAgain(failing) ==
    [calls |-> <<"search", "rank", "rank_fallback", "weather", "customs", "search">>,
     notes |-> <<[label |-> "Note", error |-> FALSE]>>]
RunTools(failing) ==
    LET s == ExecuteTool("search", failing)
        rankDirect == "rank" \notin failing
        f == ExecuteTool("rank_fallback", failing)
        w == ExecuteTool("weather", failing)
        c == ExecuteTool("customs", failing)
        calls == <<"search", "rank">> \o (IF rankDirect THEN <<>> ELSE <<"rank_fallback">>)
                    \o <<"weather", "customs">>
        notes == (IF s.raised THEN <<[label |-> "Search error", error |-> TRUE]>>
                  ELSE <<Note("Search Results", s)>>)
                 \o (IF rankDirect THEN <<[label |-> "Top Attractions", error |-> FALSE]>>
                     ELSE IF f.raised THEN <<>>
                     ELSE <<Note("Top Attractions", f)>>)
                 \o (IF w.raised THEN <<>> ELSE <<Note("Weather", w)>>)
                 \o (IF c.raised THEN <<>> ELSE <<Note("Cultural Tips", c)>>)
                 \o <<[label |-> "Note", error |-> FALSE]>>
    IN  [calls |-> calls, notes |-> notes]

\* agent.py:164-189: one summarization call; when it raises the output is
\* the error text followed by the tool results.
AgentOutput(summaryOk) == IF summaryOk THEN "summary" ELSE "summary_error_with_tool_results"

\* ------------------------------------------------ service.py enrichment
RECURSIVE ActivityPaths(_, _)
ActivityPaths(dps, d) ==
    IF d > Len(dps) THEN <<>>
    ELSE [i \in 1..Len(dps[d].activities) |-> [k |-> "activity", d |-> d, i |-> i]]
            \o ActivityPaths(dps, d + 1)

\* service.py:387-413: the order in which the three loops visit Locations
LocationPaths(it) ==
    ActivityPaths(it.day_plans, 1)
        \o [i \in 1..Len(it.top_attractions) |-> [k |-> "attraction", d |-> 0, i |-> i]]
        \o [i \in 1..Len(it.must_visit_places) |-> [k |-> "place", d |-> 0, i |-> i]]

LocationAt(it, p) ==
    IF p.k = "activity" THEN it.day_plans[p.d].activities[p.i].location
    ELSE IF p.k = "attraction" THEN it.top_attractions[p.i]
    ELSE it.must_visit_places[p.i]

SetCoordinatesReplacesLocation(it, p, la, lo) ==
    IF p.k = "activity"
    THEN [it EXCEPT !.day_plans[p.d].activities[p.i].location = Loc(None, la, lo)]
    ELSE IF p.k = "attraction"
    THEN [it EXCEPT !.top_attractions[p.i] = Loc(None, la, lo)]
    ELSE [it EXCEPT !.must_visit_places[p.i] = Loc(None, la, lo)]
SetCoordinates(it, p, la, lo) ==
    IF p.k = "activity"
    THEN [it EXCEPT !.day_plans[p.d].activities[p.i].location.latitude = la,
                    !.day_plans[p.d].activities[p.i].location.longitude = lo]
    ELSE IF p.k = "attraction"
    THEN [it EXCEPT !.top_attractions[p.i].latitude = la,
                    !.top_attractions[p.i].longitude = lo]
    ELSE [it EXCEPT !.must_visit_places[p.i].latitude = la,
                    !.must_visit_places[p.i].longitude = lo]

\* What get_place_coordinates.invoke(query) may give back: a "lat,lon"
\* string, None, a diagnostic string without comma, a string with a comma
\* that float() rejects, or an exception.
GeocodeResponses ==
    {[kind |-> "coords", lat |-> la, lon |-> lo] : la \in {0, 27}, lo \in {0, 85}}
        \cup {[kind |-> k, lat |-> 0, lon |-> 0] : k \in {"none", "error", "malformed", "raise"}}

\* service.py:369-385  get_coords
GetCoords(g) ==
    IF g.kind = "coords"
    THEN [lat |-> Some(g.lat), lon |-> Some(g.lon)]
    ELSE [lat |-> None, lon |-> None]

\* service.py:390, 399, 408  the test guarding each lookup
NeedsCoordinates(l) == ~Truthy(l.latitude)

\* service.py:391-394 (400-403, 410-412)
EnrichLocationIgnoresFailure(it, p, g) == SetCoordinates(it, p, Some(g.lat), Some(g.lon))
EnrichLocation(it, p, g) ==
    LET c == GetCoords(g) IN
    IF Truthy(c.lat) /\ Truthy(c.lon)
    THEN SetCoordinates(it, p, c.lat, c.lon)
    ELSE it

\* ------------------------------------------------ service.py markdown
Shown(r) == IF Truthy(r) THEN r ELSE None
\* service.py:196-352: what the rendering depends on
GenerateMarkdownDescriptionStamped(it) ==
    [duration |-> it.total_days, days |-> <<>>, attractions |-> <<>>, places |-> <<>>,
     accommodations |-> <<>>, stamp |-> it.created_at]
GenerateMarkdownDescription(it) ==
    [duration |-> it.total_days,
     days |-> [d \in 1..Len(it.day_plans) |->
                [day |-> it.day_plans[d].day_number,
                 activities |-> [i \in 1..Len(it.day_plans[d].activities) |->
                                    Shown(it.day_plans[d].activities[i].location.rating)]]],
     attractions |-> [i \in 1..Len(it.top_attractions) |-> Shown(it.top_attractions[i].rating)],
     places |-> [i \in 1..Len(it.must_visit_places) |-> Shown(it.must_visit_places[i].rating)],
     accommodations |-> [i \in 1..Len(it.accommodation_recommendations) |->
                            Shown(it.accommodation_recommendations[i].rating)]]

\* ------------------------------------------------ service.py responses
\* service.py:107, 117 and 113, 122  round(time.time() - start_time, 2)
ProcessingTimeReversed(now, start) == start - now
ProcessingTime(now, start) == now - start

\* service.py:109-114
SuccessResponseUnfinalized(it, now, start) ==
    [success |-> TRUE,
     itinerary |-> Some([it EXCEPT !.markdown_description = None, !.created_at = None]),
     message |-> [text |-> "Itinerary generated successfully", cause |-> None],
     processing_time |-> Some(ProcessingTime(now, start))]
SuccessResponse(it, now, start) ==
    [success |-> TRUE, itinerary |-> Some(it),
     message |-> [text |-> "Itinerary generated successfully", cause |-> None],
     processing_time |-> Some(ProcessingTime(now, start))]
\* service.py:118-123
FailureResponseGenericMessage(e, now, start) ==
    [success |-> FALSE, itinerary |-> None,
     message |-> [text |-> "Error generating itinerary", cause |-> None],
     processing_time |-> Some(ProcessingTime(now, start))]
FailureResponse(e, now, start) ==
    [success |-> FALSE, itinerary |-> None,
     message |-> [text |-> "Error generating itinerary", cause |-> Some(e)],
     processing_time |-> Some(ProcessingTime(now, start))]

\* ------------------------------------------------ router.py endpoint
HttpOk(body) == [status |-> 200, body |-> Some(body), detail |-> None]
HttpError(detail) == [status |-> 500, body |-> None, detail |-> Some(detail)]

\* router.py:74-91  generate_travel_plan, given the response of the service
\* or the exception that left it: the HTTPException raised for a response
\* without success passes the first handler unchanged.
GenerateTravelPlanReturnsResponse(o, esc) == HttpOk(Val(o))
GenerateTravelPlan(o, esc) ==
    IF ~IsNone(esc)
    THEN HttpError([text |-> "Failed to generate itinerary", cause |-> esc])
    ELSE IF ~Val(o).success
    THEN HttpError(Val(o).message)
    ELSE HttpOk(Val(o))

\* ------------------------------------------------ requests
\* schemas.py:21-37: duration and the other fields the service reads are
\* not declared, so they exist on the request only when the caller sent
\* them (extra = "allow").
Requests ==
    [duration : {None} \cup {Some(n) : n \in 1..MaxDays}, extras : BOOLEAN]

\* The coroutines that share the singleton of service.py:419 on one event
\* loop: task 0 is the health check of router.py:99, the others are calls
\* of generate_itinerary.  used is the number of the pair the task invoked,
\* 0 before it invoked one.
TaskIds == 0..MaxRequesters
Requesters == 1..MaxRequesters
IdleTask == [pos |-> "idle", used |-> 0]

\* ------------------------------------------------------------- state
VARIABLES
    agent_executor,  \* service.py:14  None, or the kind of agent created
    parser,          \* service.py:15  None, or the parser
    pc,              \* where generate_itinerary stands
    request,         \* the TravelPlanRequest of the call
    start_time,      \* service.py:32
    clock,           \* the last reading of time.time(); readings do not decrease
    tools_failing,   \* environment: the tool invocations that raise in this run
    tool_calls,      \* tool invocations of SimpleToolAgent.invoke, in order
    tool_results,    \* agent.py:119  the notes accumulated by invoke
    agent_output,    \* service.py:43
    llm_output,      \* service.py:93  None, or the text and the mapping its object denotes
    norm_data,       \* output_parser.py:41/50  data after _normalize_ratings
    itinerary,       \* service.py:96  None, or the report
    cursor,          \* position of the enrichment loops in LocationPaths
    lookups,         \* history: the get_coords calls of this request, in order
    raised,          \* the exception raised inside the try block, with its stage
    outcome,         \* the TravelPlanResponse returned, None while running
    escaped,         \* an exception that left generate_itinerary
    creations,       \* history: how often service.py:20 assigned the pair
    llm_calls,       \* history: the calls of this request to the generation client
    delays,          \* history: the time.sleep calls of this request that returned
    http,            \* router.py:75-91  what the endpoint gave its caller, None before
    tasks,           \* the coroutines sharing the service: where each stands
    adapter_calls    \* history: the adapter calls of a reasoning loop, with results

vars ==
    <<agent_executor, parser, pc, request, start_time, clock, tools_failing,
      tool_calls, tool_results, agent_output, llm_output, norm_data, itinerary, cursor,
      lookups, raised, outcome, escaped, creations, llm_calls, delays, http, tasks,
      adapter_calls>>

shared == <<agent_executor, parser>>
\* what a single call of generate_itinerary never touches
others == <<tasks, adapter_calls>>
research == <<tools_failing, tool_calls, tool_results, agent_output>>
parsing == <<llm_output, norm_data>>

NoRequest == [duration |-> None, extras |-> FALSE]

\* service.py:13-15 and :419: the singleton before its first call
Init ==
    /\ agent_executor = None
    /\ parser = None
    /\ pc = "idle"
    /\ request = NoRequest
    /\ start_time = 0
    /\ clock = 0
    /\ tools_failing = {}
    /\ tool_calls = <<>>
    /\ tool_results = <<>>
    /\ agent_output = None
    /\ llm_output = None
    /\ norm_data = None
    /\ itinerary = None
    /\ cursor = 0
    /\ lookups = <<>>
    /\ raised = None
    /\ outcome = None
    /\ escaped = None
    /\ creations = 0
    /\ llm_calls = <<>>
    /\ delays = 0
    /\ http = None
    /\ tasks = [t \in TaskIds |-> IdleTask]
    /\ adapter_calls = <<>>

\* service.py:36-114: the statements of the try block, in the order the
\* function runs them; each one starts when the one before it returned.
StageAfterSkipsEnrichment(stage) ==
    CASE stage = "init" -> "prepare"
      [] stage = "prepare" -> "research"
      [] stage = "research" -> "summarize"
      [] stage = "summarize" -> "prompt"
      [] stage = "prompt" -> "generate"
      [] stage = "generate" -> "parsing"
      [] stage = "parsing" -> "finalize"
      [] stage = "enriching" -> "finalize"
      [] stage = "finalize" -> "done"
StageAfterFinalizesBeforeEnrichment(stage) ==
    CASE stage = "init" -> "prepare"
      [] stage = "prepare" -> "research"
      [] stage = "research" -> "summarize"
      [] stage = "summarize" -> "prompt"
      [] stage = "prompt" -> "generate"
      [] stage = "generate" -> "parsing"
      [] stage = "parsing" -> "finalize"
      [] stage = "finalize" -> "enriching"
      [] stage = "enriching" -> "done"
StageAfter(stage) ==
    CASE stage = "init" -> "prepare"
      [] stage = "prepare" -> "research"
      [] stage = "research" -> "summarize"
      [] stage = "summarize" -> "prompt"
      [] stage = "prompt" -> "generate"
      [] stage = "generate" -> "parsing"
      [] stage = "parsing" -> "enriching"
      [] stage = "enriching" -> "finalize"
      [] stage = "finalize" -> "done"

\* service.py:19  the test of _initialize_agent
NeedsInitializationAlways(ae, pa) == TRUE
NeedsInitialization(ae, pa) == IsNone(ae) \/ IsNone(pa)

\* service.py:20 with agent.py:260-285: both attributes are assigned in one
\* statement; create_travel_agent gives an AgentExecutor or falls back to
\* SimpleToolAgent (agent.py:216-257).
CreatePairAgentFirst ==
    /\ \E kind \in {"simple", "react"} : agent_executor' = Some(kind)
    /\ parser' = parser
    /\ creations' = creations + 1
CreatePair ==
    /\ \E kind \in {"simple", "react"} : agent_executor' = Some(kind)
    /\ parser' = Some("parser")
    /\ creations' = creations + 1

\* service.py:116-123: the handler returns; no statement of the try block
\* runs again.
StageAfterFailureRetriesGeneration(stage) == IF stage = "generate" THEN "generate" ELSE "done"
StageAfterFailure(stage) == "done"

\* service.py:116-123: an exception raised inside the try block at the
\* given stage.  The handler reads the clock and returns the failure
\* response; an exception it does not catch leaves generate_itinerary.
Raise(stage, e) ==
    /\ raised' = Some([stage |-> stage, exc |-> e])
    /\ pc' = StageAfterFailure(stage)
    /\ IF Catches(e)
       THEN \E now \in clock..MaxClock :
                /\ clock' = now
                /\ outcome' = Some(FailureResponse(e, now, start_time))
                /\ escaped' = None
       ELSE /\ escaped' = Some(e)
            /\ UNCHANGED <<clock, outcome>>

\* router.py:75 with service.py:22-32: the endpoint calls
\* generate_itinerary, the one caller it has; start_time is taken.
StartRequest ==
    /\ pc = "idle" \/ (pc = "done" /\ ~IsNone(http))
    /\ \E r \in Requests : request' = r
    /\ clock' = 0
    /\ start_time' = clock'
    /\ pc' = "init"
    /\ tools_failing' = {}
    /\ tool_calls' = <<>>
    /\ tool_results' = <<>>
    /\ agent_output' = None
    /\ llm_output' = None
    /\ norm_data' = None
    /\ itinerary' = None
    /\ cursor' = 0
    /\ lookups' = <<>>
    /\ raised' = None
    /\ outcome' = None
    /\ escaped' = None
    /\ llm_calls' = <<>>
    /\ delays' = 0
    /\ http' = None
    /\ UNCHANGED <<shared, creations, others>>

\* service.py:17-20 and 36, agent.py:260-285: the pair is created when one
\* of the two is None.  get_gemini_llm raises ValueError without credential
\* (agent.py:65-66) before anything is assigned; create_travel_agent gives
\* an AgentExecutor or falls back to SimpleToolAgent (agent.py:216-257).
InitializeAgent ==
    /\ pc = "init"
    /\ IF NeedsInitialization(agent_executor, parser)
       THEN \/ /\ CreatePair
               /\ pc' = StageAfter("init")
               /\ UNCHANGED <<clock, raised, outcome, escaped>>
            \/ /\ Raise("init", Exc("ValueError", "GOOGLE_API_KEY is required"))
               /\ UNCHANGED <<shared, creations>>
       ELSE /\ pc' = StageAfter("init")
            /\ UNCHANGED <<shared, creations, clock, raised, outcome, escaped>>
    /\ UNCHANGED <<request, start_time, research, parsing, itinerary, cursor, lookups,
                   llm_calls, delays, http, others>>

\* service.py:136-144: the attributes _prepare_agent_input reads are
\* duration and the extras; none of them is a declared field.
MissingAttributeOfExtras(r) == ~r.extras
MissingAttribute(r) == IsNone(r.duration) \/ ~r.extras

\* service.py:39 and 125-144: reading an attribute the request does not
\* have raises AttributeError.
PrepareAgentInput ==
    /\ pc = "prepare"
    /\ IF MissingAttribute(request)
       THEN Raise("prepare", Exc("AttributeError", "object has no attribute"))
       ELSE /\ pc' = StageAfter("prepare")
            /\ UNCHANGED <<clock, raised, outcome, escaped>>
    /\ UNCHANGED <<shared, request, start_time, research, parsing, itinerary, cursor, lookups,
                   creations, llm_calls, delays, http, others>>

\* service.py:42 with agent.py:103-162: the fallback agent runs its tool
\* sequence, whatever subset of the invocations raises.
RunToolSequence ==
    /\ pc = "research"
    /\ agent_executor = Some("simple")
    /\ \E failing \in SUBSET ToolCalls :
        /\ "rank" \notin failing => "rank_fallback" \notin failing
        /\ tools_failing' = failing
        /\ tool_calls' = RunTools(failing).calls
        /\ tool_results' = RunTools(failing).notes
    /\ pc' = StageAfter("research")
    /\ UNCHANGED <<shared, request, start_time, clock, agent_output, parsing, itinerary, cursor,
                   lookups, raised, outcome, escaped, creations, llm_calls, delays, http,
                   others>>

\* agent.py:164-189 and service.py:43: the one summarization call, whose
\* failure becomes part of the output; invoke returns and its locals end
\* with it.
Summarize ==
    /\ pc = "summarize"
    /\ \E summaryOk \in BOOLEAN : agent_output' = Some(AgentOutput(summaryOk))
    /\ llm_calls' = Append(llm_calls, "summarize")
    /\ tools_failing' = {}
    /\ tool_calls' = <<>>
    /\ tool_results' = <<>>
    /\ pc' = StageAfter("summarize")
    /\ UNCHANGED <<shared, request, start_time, clock, parsing, itinerary, cursor,
                   lookups, raised, outcome, escaped, creations, delays, http, others>>

\* service.py:42-43 with the AgentExecutor of agent.py:243-252: the
\* reasoning loop, which ends with its own final answer, returns an output
\* or raises.
AgentInvokeReact ==
    /\ pc = "research"
    /\ agent_executor = Some("react")
    /\ \/ /\ agent_output' = Some("final_answer")
          /\ pc' = StageAfter("summarize")
          /\ UNCHANGED <<clock, raised, outcome, escaped>>
       \/ /\ Raise("research", Exc("Exception", "agent executor failed"))
          /\ UNCHANGED agent_output
    /\ UNCHANGED <<shared, request, start_time, tools_failing, tool_calls, tool_results,
                   parsing, itinerary, cursor, lookups, creations, llm_calls, delays, http, others>>

\* service.py:46-89: get_gemini_llm again (ValueError without credential),
\* then the prompt is rendered from the request and the agent output.
BuildPrompt ==
    /\ pc = "prompt"
    /\ \/ /\ pc' = StageAfter("prompt")
          /\ UNCHANGED <<clock, raised, outcome, escaped>>
       \/ Raise("prompt", Exc("ValueError", "GOOGLE_API_KEY is required"))
    /\ UNCHANGED <<shared, request, start_time, research, parsing, itinerary, cursor, lookups,
                   creations, llm_calls, delays, http, others>>

\* service.py:92-93: the one generation call; it answers or raises.
Generate ==
    /\ pc = "generate"
    /\ llm_calls' = Append(llm_calls, "generate")
    /\ \/ /\ \E o \in LLMOutputs : llm_output' = Some(o)
          /\ pc' = StageAfter("generate")
          /\ UNCHANGED <<clock, raised, outcome, escaped>>
       \/ /\ Raise("generate", Exc("Exception", "generation call failed"))
          /\ UNCHANGED llm_output
    /\ UNCHANGED <<shared, request, start_time, research, norm_data, itinerary, cursor, lookups,
                   creations, delays, http, others>>

\* service.py:96 with output_parser.py:20-54
ParseOutput ==
    /\ pc = "parsing"
    /\ LET r == Parse(Val(llm_output).text, Val(llm_output).data) IN
        /\ norm_data' = r.norm
        /\ IF r.ok
           THEN /\ itinerary' = r.report
                /\ cursor' = 1
                /\ pc' = StageAfter("parsing")
                /\ UNCHANGED <<clock, raised, outcome, escaped>>
           ELSE /\ Raise("parsing", Val(r.exc))
                /\ UNCHANGED <<itinerary, cursor>>
    /\ UNCHANGED <<shared, request, start_time, research, llm_output, lookups,
                   creations, llm_calls, delays, http, others>>

\* service.py:395, 404, 413: time.sleep blocks, so the statement after it
\* runs when every sleep that was started has returned.
SleepReturnedOrNot(ls, ds) == TRUE
SleepReturned(ls, ds) == ds = Len(ls)

\* service.py:99 with 387-413: one iteration of the enrichment loops.  A
\* Location that passes the test is looked up once, whatever the geocoding
\* adapter gives back, and the loop sleeps.  (The import of line 365 names
\* the module travel.agent already imported the adapter from when the
\* service was loaded, so it does not fail in a running service.)
EnrichStep ==
    /\ pc = "enriching"
    /\ SleepReturned(lookups, delays)
    /\ cursor <= Len(LocationPaths(Val(itinerary)))
    /\ LET it == Val(itinerary)
           p == LocationPaths(it)[cursor]
       IN  IF NeedsCoordinates(LocationAt(it, p))
           THEN \E g \in GeocodeResponses :
                    /\ itinerary' = Some(EnrichLocation(it, p, g))
                    /\ lookups' = Append(lookups, [at |-> cursor, response |-> g])
           ELSE UNCHANGED <<itinerary, lookups>>
    /\ cursor' = cursor + 1
    /\ UNCHANGED <<shared, pc, request, start_time, clock, research, parsing,
                   raised, outcome, escaped, creations, llm_calls, delays, http, others>>

\* service.py:395, 404, 413: the sleep that follows a lookup, inside the
\* if block of the lookup, returns.
RateLimitSleep ==
    /\ pc = "enriching"
    /\ delays < Len(lookups)
    /\ delays' = delays + 1
    /\ UNCHANGED <<shared, pc, request, start_time, clock, research, parsing, itinerary, cursor,
                   lookups, raised, outcome, escaped, creations, llm_calls, http, others>>

\* service.py:415: the loops are over.
EnrichReturn ==
    /\ pc = "enriching"
    /\ SleepReturned(lookups, delays)
    /\ cursor > Len(LocationPaths(Val(itinerary)))
    /\ pc' = StageAfter("enriching")
    /\ UNCHANGED <<shared, request, start_time, clock, research, parsing, itinerary,
                   cursor, lookups, raised, outcome, escaped, creations, llm_calls, delays,
                   http, others>>

\* service.py:102-114: markdown, timestamp, processing time, response.
Finalize ==
    /\ pc = "finalize"
    /\ \E now \in clock..MaxClock :
        LET it == [Val(itinerary) EXCEPT
                      !.markdown_description = Some(GenerateMarkdownDescription(Val(itinerary))),
                      !.created_at = Some(now)]
        IN  /\ clock' = now
            /\ itinerary' = Some(it)
            /\ outcome' = Some(SuccessResponse(it, now, start_time))
    /\ pc' = StageAfter("finalize")
    /\ UNCHANGED <<shared, request, start_time, research, parsing, cursor, lookups, raised, escaped,
                   creations, llm_calls, delays, http, others>>

\* router.py:77-91: the endpoint returns the response or raises the HTTP
\* error made of it.
EndpointReturn ==
    /\ pc = "done"
    /\ IsNone(http)
    /\ http' = Some(GenerateTravelPlan(outcome, escaped))
    /\ UNCHANGED <<shared, pc, request, start_time, clock, research, parsing, itinerary, cursor,
                   lookups, raised, outcome, escaped, creations, llm_calls, delays, others>>

Next ==
    \/ StartRequest
    \/ InitializeAgent
    \/ PrepareAgentInput
    \/ RunToolSequence
    \/ Summarize
    \/ AgentInvokeReact
    \/ BuildPrompt
    \/ Generate
    \/ ParseOutput
    \/ EnrichStep
    \/ RateLimitSleep
    \/ EnrichReturn
    \/ Finalize
    \/ EndpointReturn

Spec == Init /\ [][Next]_vars

\* ------------------------------------- coroutines sharing the service
\* The endpoints of router.py:27 and :99 are coroutines of one event loop, so
\* a task runs alone from one await to the next.  generate_itinerary awaits
\* once, at service.py:92; _initialize_agent and the health check never do.
request_local ==
    <<pc, request, start_time, clock, research, parsing, itinerary, cursor, lookups,
      raised, outcome, escaped, llm_calls, delays, http>>

\* Where the part of generate_itinerary before its await may end: with an
\* exception of the initialization, of _prepare_agent_input, of the agent
\* or of the prompt, or at the await.
Segments == {"init", "prepare", "research", "prompt", "await"}

\* service.py:32-92: a call runs up to the await of the generation client,
\* or returns the failure response for what was raised before.
RequestStart(t) ==
    /\ tasks[t].pos = "idle"
    /\ \E seg \in Segments :
        /\ IF NeedsInitialization(agent_executor, parser)
           THEN IF seg = "init" THEN UNCHANGED <<shared, creations>> ELSE CreatePair
           ELSE seg /= "init" /\ UNCHANGED <<shared, creations>>
        /\ seg = "research" => agent_executor' = Some("react")
        /\ tasks' = [tasks EXCEPT ![t] =
                        [pos |-> IF seg = "await" THEN "awaiting" ELSE "failed",
                         used |-> IF seg \in {"init", "prepare"} THEN 0 ELSE creations']]
    /\ UNCHANGED <<request_local, adapter_calls>>

\* service.py:93-123: the generation client answered or raised; parsing,
\* enrichment and finalization run without another await.
RequestResume(t) ==
    /\ tasks[t].pos = "awaiting"
    /\ \E pos \in {"succeeded", "failed"} : tasks' = [tasks EXCEPT ![t].pos = pos]
    /\ UNCHANGED <<shared, creations, request_local, adapter_calls>>

\* router.py:75-91: the response left the endpoint; the client may call again.
RequestReturn(t) ==
    /\ tasks[t].pos \in {"succeeded", "failed"}
    /\ tasks' = [tasks EXCEPT ![t] = IdleTask]
    /\ UNCHANGED <<shared, creations, request_local, adapter_calls>>

\* router.py:99-119: the health check initializes the agent and reports.
HealthCheck ==
    /\ IF NeedsInitialization(agent_executor, parser)
       THEN \/ /\ CreatePair
               /\ tasks' = [tasks EXCEPT ![0] = [pos |-> "healthy", used |-> 0]]
            \/ /\ UNCHANGED <<shared, creations>>
               /\ tasks' = [tasks EXCEPT ![0] = [pos |-> "unhealthy", used |-> 0]]
       ELSE /\ UNCHANGED <<shared, creations>>
            /\ tasks' = [tasks EXCEPT ![0] = [pos |-> "healthy", used |-> 0]]
    /\ UNCHANGED <<request_local, adapter_calls>>

\* agent.py:204-252: the reasoning loop of the AgentExecutor may call any
\* adapter of its tool list, in any order, whatever the provider does.
CallAdapter ==
    /\ Len(adapter_calls) < MaxAdapterCalls
    /\ \E a \in Adapters, b \in ProviderBehaviours :
        adapter_calls' =
            Append(adapter_calls, [adapter |-> a, provider |-> b, result |-> AdapterResult(a, b)])
    /\ UNCHANGED <<shared, creations, request_local, tasks>>

\* agent.py:243-252: the loop ends and a new one may start.
ReturnFromLoop ==
    /\ adapter_calls /= <<>>
    /\ adapter_calls' = <<>>
    /\ UNCHANGED <<shared, creations, request_local, tasks>>

NextTools == CallAdapter \/ ReturnFromLoop

SpecTools == Init /\ [][NextTools]_vars

NextShared ==
    \/ \E t \in Requesters : RequestStart(t)
    \/ \E t \in Requesters : RequestResume(t)
    \/ \E t \in Requesters : RequestReturn(t)
    \/ HealthCheck

SpecShared == Init /\ [][NextShared]_vars

\* ============================================================ properties
Returned == ~IsNone(outcome)
Succeeded == Returned /\ Val(outcome).success
Failed == Returned /\ ~Val(outcome).success
Report == Val(Val(outcome).itinerary)

\* C1: generate_itinerary never lets an exception escape: whatever is
\* raised inside the try block, at whatever stage, the call ends with a
\* response that has success = false, no itinerary and a message made of
\* the fixed prefix and the exception raised.
C1_NoExceptionEscapes ==
    /\ IsNone(escaped)
    /\ pc = "done" => Returned
    /\ ~IsNone(raised) =>
        /\ pc = "done"
        /\ Failed
        /\ IsNone(Val(outcome).itinerary)
        /\ Val(outcome).message.text = "Error generating itinerary"
        /\ Val(outcome).message.cause = Some(Val(raised).exc)
C1_Witness ==
    /\ ~IsNone(raised)
    /\ Val(raised).stage = "prepare"
    /\ Val(raised).exc.type = "AttributeError"
    /\ Failed

\* C2: a successful outcome for a request of duration N carries exactly N
\* day plans.
C2_ExactlyDurationDayPlans ==
    Succeeded => Len(Report.day_plans) = Val(request.duration)

\* C3: in a successful report the day_number values are exactly
\* 1..total_days, each once.
C3_DayNumbersContiguous ==
    Succeeded =>
        /\ Len(Report.day_plans) = Report.total_days
        /\ {Report.day_plans[i].day_number : i \in 1..Len(Report.day_plans)}
                = 1..Report.total_days

\* C4: in a successful report total_days equals the requested duration.
C4_TotalDaysIsDuration ==
    Succeeded => Report.total_days = Val(request.duration)

\* Every rating of a mapping, in a fixed order: activity locations day by
\* day, top attractions, must-visit places, accommodations.
RECURSIVE ActivityRatings(_, _)
ActivityRatings(dps, d) ==
    IF d > Len(dps) THEN <<>>
    ELSE [i \in 1..Len(dps[d].activities) |-> dps[d].activities[i].location.rating]
            \o ActivityRatings(dps, d + 1)
RatingsOf(m) ==
    ActivityRatings(m.day_plans, 1)
        \o [i \in 1..Len(m.top_attractions) |-> m.top_attractions[i].rating]
        \o [i \in 1..Len(m.must_visit_places) |-> m.must_visit_places[i].rating]
        \o [i \in 1..Len(m.accommodation_recommendations) |->
                m.accommodation_recommendations[i].rating]

InScale(r) == IsNone(r) \/ (0 <= Val(r) /\ Val(r) <= 50)
Halved(r) == IF ~IsNone(r) /\ Val(r) > 50 THEN Some(RoundHalf(Val(r))) ELSE r
Normalized == ~IsNone(norm_data) /\ Val(norm_data).kind = "dict"
RawRatings == RatingsOf(Val(llm_output).data)
NormRatings == RatingsOf(Val(norm_data))

\* C5 as stated: every rating-bearing field is halved and rounded when it
\* is above 5 and unchanged otherwise, and every normalized rating lies in
\* 0..5.
C5_NormalizedAlwaysInScale ==
    Normalized =>
        /\ Len(NormRatings) = Len(RawRatings)
        /\ \A i \in 1..Len(RawRatings) :
            /\ NormRatings[i] = Halved(RawRatings[i])
            /\ InScale(NormRatings[i])

\* C5 amended: every rating-bearing field is halved and rounded when it is
\* above 5 and unchanged otherwise; the normalized rating lies in 0..5
\* whenever the input lies in 0..10.
C5_NormalizedInScaleForZeroToTen ==
    Normalized =>
        /\ Len(NormRatings) = Len(RawRatings)
        /\ \A i \in 1..Len(RawRatings) :
            /\ NormRatings[i] = Halved(RawRatings[i])
            /\ (~IsNone(RawRatings[i]) /\ 0 <= Val(RawRatings[i]) /\ Val(RawRatings[i]) <= 100)
                    => InScale(NormRatings[i])
C5_Witness ==
    /\ Normalized
    /\ \E i \in 1..Len(RawRatings) : RawRatings[i] = {89} /\ NormRatings[i] = {45}
    /\ Val(norm_data).accommodation_recommendations # <<>>

\* C6: every rating of a successful report is None or within 0..5, and a
\* mapping that still has a rating outside 0..5 after normalization gives
\* no report and no successful outcome.
C6_ReportRatingsInScale ==
    /\ Succeeded => \A i \in 1..Len(RatingsOf(Report)) : InScale(RatingsOf(Report)[i])
    /\ (Normalized /\ \E i \in 1..Len(NormRatings) : ~InScale(NormRatings[i])) =>
            /\ IsNone(itinerary)
            /\ ~Succeeded
C6_Witness ==
    /\ Succeeded
    /\ \E i \in 1..Len(RatingsOf(Report)) :
            RawRatings[i] = {100} /\ RatingsOf(Report)[i] = {50}

\* C7: every outcome returned carries a processing_time, and it is >= 0,
\* on the success path and on the failure paths.
C7_ProcessingTimeRecorded ==
    /\ pc = "done" => Returned
    /\ Returned =>
        /\ ~IsNone(Val(outcome).processing_time)
        /\ Val(Val(outcome).processing_time) >= 0
C7_Witness ==
    /\ Failed
    /\ Val(Val(outcome).processing_time) > 0

\* A JSON object somewhere in the text
HasObject(t) ==
    \E i \in 1..Len(t), j \in 1..Len(t) :
        i <= j /\ NoWs(SubSeq(t, i, j)) \in {<<"{", "M", "}">>, <<"{", "}">>}
ParseErrors == {"ValueError", "JSONDecodeError"}

\* C8: when the generated text contains no JSON object, no report is
\* built, enrichment and markdown synthesis never run, and the call ends
\* with success = false and a message made from the parse error.
C8_NoObjectFails ==
    (~IsNone(llm_output) /\ ~HasObject(Val(llm_output).text)) =>
        /\ IsNone(itinerary)
        /\ cursor = 0
        /\ pc \in {"parsing", "done"}
        /\ pc = "done" =>
            /\ Failed
            /\ IsNone(Val(outcome).itinerary)
            /\ Val(raised).stage = "parsing"
            /\ Val(raised).exc.type \in ParseErrors
            /\ Val(outcome).message.cause = Some(Val(raised).exc)
C8_Witness ==
    /\ ~IsNone(llm_output)
    /\ Val(llm_output).text = <<"x", " ", "x">>
    /\ Failed
    /\ Val(outcome).message.cause = Some(Exc("ValueError", "Failed to parse JSON from output"))

ResearchDone == agent_executor = Some("simple") /\ pc = "summarize"
NoteOf(label) ==
    {tool_results[i].error : i \in {j \in 1..Len(tool_results) : tool_results[j].label = label}}
Position(call) == CHOOSE i \in 1..Len(tool_calls) : tool_calls[i] = call

\* C9: in the fallback agent, whatever subset of the tool invocations
\* raises, invoke returns an output, search, rank, weather and customs are
\* all called in that order, each of the four has its note in the results,
\* the note of a tool that raised is a tool-error note, and no failure of
\* the call is raised at the research stage.
C9_ToolFailuresAbsorbed ==
    /\ (agent_executor = Some("simple") /\ ~IsNone(raised)) => Val(raised).stage # "research"
    /\ (agent_executor = Some("simple") /\ pc \in {"prompt", "generate", "parsing", "enriching", "finalize"})
            => ~IsNone(agent_output)
    /\ ResearchDone =>
        /\ \A c \in {"search", "rank", "weather", "customs"} :
                \E i \in 1..Len(tool_calls) : tool_calls[i] = c
        /\ Position("search") < Position("rank")
        /\ Position("rank") < Position("weather")
        /\ Position("weather") < Position("customs")
        /\ NoteOf("Search Results") = {"search" \in tools_failing}
        /\ NoteOf("Top Attractions") = {{"rank", "rank_fallback"} \subseteq tools_failing}
        /\ NoteOf("Weather") = {"weather" \in tools_failing}
        /\ NoteOf("Cultural Tips") = {"customs" \in tools_failing}
C9_Witness ==
    /\ ResearchDone
    /\ tools_failing = ToolCalls
    /\ tool_calls = <<"search", "rank", "rank_fallback", "weather", "customs">>
    /\ \A i \in 1..4 : tool_results[i].error

\* C10: an enrichment step leaves every Location that has both latitude
\* and longitude set as it is.
C10_PopulatedLocationUntouched ==
    [][(pc = "enriching" /\ pc' = "enriching") =>
        \A i \in 1..Len(LocationPaths(Val(itinerary))) :
            LET p == LocationPaths(Val(itinerary))[i]
                l == LocationAt(Val(itinerary), p)
            IN  (~IsNone(l.latitude) /\ ~IsNone(l.longitude))
                    => LocationAt(Val(itinerary'), p) = l]_vars

\* The Locations of a report, in the order enrichment visits them.
Locations(it) == [i \in 1..Len(LocationPaths(it)) |-> LocationAt(it, LocationPaths(it)[i])]
ExactlyOneCoordinate(l) == IsNone(l.latitude) /= IsNone(l.longitude)
Enriched == pc = "finalize" \/ Succeeded

\* C11: once coordinate enrichment of a validated report is over, no
\* Location of the report (activity location, top attraction, must-visit
\* place) has exactly one of latitude and longitude set.
C11_NoPartialCoordinates ==
    Enriched =>
        \A i \in 1..Len(Locations(Val(itinerary))) :
            ~ExactlyOneCoordinate(Locations(Val(itinerary))[i])

\* The lookup made by the step just taken, when it made one.
LookedUp == Len(lookups') = Len(lookups) + 1
LastLookup == lookups'[Len(lookups')]
LookupFailed(g) == g.kind /= "coords"
NoCoordinates(l) == IsNone(l.latitude) /\ IsNone(l.longitude)

\* C12: coordinate enrichment is best-effort.  A lookup that fails (the
\* adapter answers None, a diagnostic string or a malformed pair, or it
\* raises) leaves the report as it was, so a Location without coordinates
\* keeps both of them null; the loop goes on to the next Location; nothing
\* is raised, and a request whose enrichment made a lookup never ends in a
\* failure response.
C12_EnrichmentBestEffort ==
    /\ [](lookups /= <<>> => (IsNone(raised) /\ IsNone(escaped) /\ (Returned => Succeeded)))
    /\ [][LookedUp =>
            /\ pc = "enriching" /\ pc' = "enriching"
            /\ cursor' = cursor + 1
            /\ LastLookup.at = cursor
            /\ UNCHANGED <<raised, outcome, escaped>>
            /\ LookupFailed(LastLookup.response) =>
                    /\ itinerary' = itinerary
                    /\ LET l == Locations(Val(itinerary'))[cursor] IN
                        NoCoordinates(Locations(Val(itinerary))[cursor]) => NoCoordinates(l)]_vars
C12_Witness ==
    /\ Succeeded
    /\ Len(lookups) = 2
    /\ lookups[1].response.kind = "raise"
    /\ lookups[2].response.kind = "coords"
    /\ NoCoordinates(Locations(Report)[1])
    /\ Locations(Report)[2].latitude = Some(27)
    /\ Locations(Report)[2].longitude = Some(85)

PairSet == ~IsNone(agent_executor) /\ ~IsNone(parser)

\* C13: whatever the interleaving of the calls of generate_itinerary and
\* of the health check on the shared service, the pair is created at most
\* once; once both attributes are set no step assigns them again, and
\* every call that invoked an agent invoked the one pair.
C13_InitializedAtMostOnce ==
    /\ [](creations <= 1)
    /\ [](\A t \in Requesters : tasks[t].used /= 0 => (tasks[t].used = 1 /\ PairSet))
    /\ [][PairSet => UNCHANGED <<agent_executor, parser, creations>>]_vars
C13_Witness ==
    /\ tasks[1].pos = "awaiting"
    /\ tasks[2].pos = "awaiting"
    /\ tasks[3].pos = "succeeded"
    /\ tasks[0].pos = "healthy"
    /\ \A t \in Requesters : tasks[t].used = 1
    /\ creations = 1

CredentialError == Exc("ValueError", "GOOGLE_API_KEY is required")

\* C15: when the generation credential is absent, the configuration error
\* raised at first use leaves generate_itinerary as an exception: no
\* response with success = false is made of it, and no generation client is
\* created or called.
C15_CredentialErrorRaisedToCaller ==
    (~IsNone(raised) /\ Val(raised).exc = CredentialError) =>
        /\ escaped = Some(CredentialError)
        /\ ~Returned
        /\ IsNone(llm_output)

\* C16: no adapter lets an error out.  Whatever the provider does during a
\* call, the adapter returns; when the provider failed, what it returns is
\* the diagnostic string with the prefix of that adapter, or an empty
\* result.
C16_AdaptersNeverRaise ==
    \A i \in 1..Len(adapter_calls) :
        LET c == adapter_calls[i] IN
        /\ ~c.result.raised
        /\ c.provider \in ProviderFailures =>
            \/ c.result.kind = "empty"
            \/ /\ c.result.kind = "diagnostic"
               /\ c.adapter \in SearchAdapters
               /\ c.result.text = ErrorPrefix(c.adapter)
C16_Witness ==
    /\ Len(adapter_calls) = 2
    /\ adapter_calls[1].adapter = "search_travel_information"
    /\ adapter_calls[1].provider = "query_raises"
    /\ adapter_calls[1].result = Returns("diagnostic", "Error searching: ")
    /\ adapter_calls[2].adapter = "get_weather_info"
    /\ adapter_calls[2].provider = "import_error"
    /\ adapter_calls[2].result = Returns("diagnostic", "Error getting weather: ")

\* The stage of the request, in the words of the service's state machine.
CurrentStage ==
    CASE pc = "idle" -> "Idle"
      [] pc \in {"init", "prepare", "research", "summarize"} -> "ResearchInProgress"
      [] pc \in {"prompt", "generate"} -> "GenerationInProgress"
      [] pc = "parsing" -> "Parsing"
      [] pc \in {"enriching", "finalize"} -> "Enriching"
      [] pc = "done" -> IF Succeeded THEN "Finalized" ELSE "Failed"
StageOrder ==
    <<"Idle", "ResearchInProgress", "GenerationInProgress", "Parsing", "Enriching", "Finalized">>
StageRank(st) == CHOOSE i \in 1..Len(StageOrder) : StageOrder[i] = st
Terminal == {"Finalized", "Failed"}

\* C17: a request goes through research, generation, parsing, enriching
\* and finalized in this order.  Every change of stage is a step to the
\* next stage of the order or a step to Failed; nothing but the start of a
\* new request follows Finalized or Failed; a request ends in exactly one
\* of the two, Finalized with the results of all the stages and nothing
\* raised, Failed with the exception raised and no itinerary.
C17_StagesInOrder ==
    /\ [][CurrentStage' /= CurrentStage =>
            IF CurrentStage \in Terminal
            THEN pc' = "init" /\ IsNone(outcome') /\ IsNone(raised')
            ELSE \/ CurrentStage' = "Failed"
                 \/ /\ CurrentStage' /= "Failed"
                    /\ StageRank(CurrentStage') = StageRank(CurrentStage) + 1]_vars
    /\ [][(CurrentStage \in Terminal /\ CurrentStage' \in Terminal) =>
            (outcome' = outcome \/ pc' = "init")]_vars
    /\ [](pc = "done" => Returned)
    /\ [](Succeeded =>
            /\ IsNone(raised)
            /\ ~IsNone(agent_output) /\ ~IsNone(llm_output) /\ ~IsNone(norm_data)
            /\ cursor = Len(LocationPaths(Report)) + 1
            /\ ~IsNone(Report.markdown_description))
    /\ [](Failed => (~IsNone(raised) /\ IsNone(Val(outcome).itinerary)))
C17_Witness ==
    /\ CurrentStage = "Finalized"
    /\ agent_output = Some("summary")
    /\ Val(llm_output).text = FencedObject
    /\ Len(lookups) = 1
    /\ cursor = 2

ParseRan == ~IsNone(llm_output) /\ pc \notin {"generate", "parsing"}
RawData == Val(llm_output).data
\* the text holds the object of the answer, bare, fenced or inside prose
HoldsObject(t) ==
    \E i \in 1..Len(t), j \in 1..Len(t) : i <= j /\ NoWs(SubSeq(t, i, j)) = <<"{", "M", "}">>
\* json.loads accepts the fence-stripped text
DirectPath == JsonLoads(ExtractJson(Val(llm_output).text), RawData).ok
\* json.loads accepts the substring between the outermost braces
FallbackReads ==
    LET js == ExtractJsonFromText(ExtractJson(Val(llm_output).text)) IN
    ~IsNone(js) /\ JsonLoads(Val(js), RawData).ok
\* parse read the object of the answer, on one of its two paths
ObjectRead ==
    /\ HoldsObject(Val(llm_output).text)
    /\ DirectPath \/ FallbackReads

\* C18: in parse, rating normalization comes after the JSON object was
\* extracted and before schema validation, on the direct path and on the
\* brace-extraction path.  The mapping handed to validation is the
\* normalized form of the mapping read from the text, a report exists only
\* if that normalized mapping passed validation and carries its ratings,
\* and an object that is valid once normalized is not rejected.
C18_NormalizedBeforeValidation ==
    ParseRan =>
        /\ ObjectRead => norm_data = Some(NormalizeRatings(RawData))
        /\ ~IsNone(itinerary) =>
                /\ Normalized
                /\ ItineraryReportValid(Val(norm_data))
                /\ RatingsOf(Val(itinerary)) = NormRatings
                /\ \A i \in 1..Len(RawRatings) :
                        RatingsOf(Val(itinerary))[i] = Halved(RawRatings[i])
        /\ (ObjectRead /\ ItineraryReportValid(NormalizeRatings(RawData))) => ~IsNone(itinerary)
C18_Witness ==
    /\ ParseRan
    /\ Val(llm_output).text = WrappedObject
    /\ RawData.top_attractions[1].rating = Some(89)
    /\ Val(norm_data).top_attractions[1].rating = Some(45)
    /\ Succeeded
    /\ Report.top_attractions[1].rating = Some(45)

ParsingFailed == ~IsNone(raised) /\ Val(raised).stage = "parsing"
ParseException == Val(raised).exc
\* the object of the answer was read and the schema rejects it
StructuralFailure ==
    /\ ParsingFailed
    /\ ObjectRead
    /\ ~ItineraryReportValid(NormalizeRatings(RawData))
\* neither the fence-stripped text nor its brace substring is JSON
NoJsonExtracted == ParsingFailed /\ ~DirectPath /\ ~FallbackReads
ParseErrorClasses == {"ValueError", "JSONDecodeError"}

\* C19 as stated: a structural validation failure is reported as a
\* ValidationError, on the direct path and on the brace-extraction path,
\* and the error reported when no JSON can be extracted is of another
\* class.
C19_ValidationErrorByClass ==
    /\ StructuralFailure => ParseException.type = "ValidationError"
    /\ NoJsonExtracted => ParseException.type \in ParseErrorClasses

\* C19 amended: the exception reported for a structural validation failure
\* always differs from the one reported when no JSON can be extracted, by
\* class or by message.  On the direct path it is a ValueError with the
\* message prefix "Failed to parse itinerary", the class of the no-JSON
\* error, whose prefix is "Failed to parse JSON from output"; on the
\* brace-extraction path it is the schema ValidationError, not wrapped.
C19_ValidationErrorDistinguishable ==
    /\ StructuralFailure =>
            ParseException =
                IF DirectPath THEN Exc("ValueError", "Failed to parse itinerary")
                ELSE Exc("ValidationError", "validation errors for ItineraryReport")
    /\ NoJsonExtracted =>
            ParseException \in {Exc("ValueError", "Failed to parse JSON from output"),
                                Exc("JSONDecodeError", "Expecting value")}
C19_Witness ==
    /\ StructuralFailure
    /\ ~DirectPath
    /\ Val(llm_output).text = WrappedObject
    /\ RawData.top_attractions[1].rating = Some(120)
    /\ ParseException.type = "ValidationError"
    /\ Failed

JustParsed == ParseRan /\ pc = "enriching" /\ cursor = 1
Stripped == ExtractJson(Val(llm_output).text)
Braces(c) == {i \in 1..Len(Stripped) : Stripped[i] = c}
Min(S) == CHOOSE i \in S : \A j \in S : i <= j
Max(S) == CHOOSE i \in S : \A j \in S : j <= i
\* the text from the first "{" to the last "}" of the fence-stripped text
Outermost ==
    IF Braces("{") /= {} /\ Braces("}") /= {} /\ Min(Braces("{")) < Max(Braces("}"))
    THEN Some(SubSeq(Stripped, Min(Braces("{")), Max(Braces("}"))))
    ELSE None
\* the text around the object has no brace of its own
BraceFreeSurroundings == ~IsNone(Outermost) /\ NoWs(Val(Outermost)) = BareObject
ParsedAsBare ==
    /\ Parse(BareObject, RawData).ok <=> ~IsNone(itinerary)
    /\ JustParsed => itinerary = Parse(BareObject, RawData).report

\* C20 as stated: when json.loads rejects the fence-stripped text, parse
\* reads the substring from the first "{" to the last "}"; a text made of
\* a valid report object and non-JSON text around it gives the report the
\* bare object gives; when there is no such substring, or it is not JSON
\* either, parse raises a parse error.
C20_SurroundedObjectParses ==
    (ParseRan /\ ~DirectPath) =>
        /\ HoldsObject(Val(llm_output).text) => ParsedAsBare
        /\ ~FallbackReads =>
                /\ IsNone(itinerary)
                /\ ParsingFailed
                /\ ParseException.type \in ParseErrorClasses

\* C20 amended: the substring read is the one from the first "{" to the
\* last "}" of the fence-stripped text, so the object is found only when
\* the text around it has no "{" before it and no "}" after it; then the
\* text gives the report the bare object gives.  With a brace in the text
\* around it, as without any braces, the parse fails with a parse error
\* and no report is built.
C20_BraceFreeSurroundedObjectParses ==
    (ParseRan /\ ~DirectPath) =>
        /\ ExtractJsonFromText(Stripped) = Outermost
        /\ (HoldsObject(Val(llm_output).text) /\ BraceFreeSurroundings) =>
                (FallbackReads /\ ParsedAsBare)
        /\ ~BraceFreeSurroundings => ~FallbackReads
        /\ ~FallbackReads =>
                /\ IsNone(itinerary)
                /\ IsNone(norm_data)
                /\ ParsingFailed
                /\ ParseException \in
                        {Exc("ValueError", "Failed to parse JSON from output"),
                         Exc("JSONDecodeError", "Expecting value")}
C20_Witness ==
    /\ JustParsed
    /\ Val(llm_output).text = WrappedObject
    /\ itinerary = Parse(BareObject, RawData).report
    /\ Val(itinerary).top_attractions[1].rating = Some(45)

\* the orders in which one run of the fallback agent calls its tools
FixedOrders ==
    {<<"search", "rank", "weather", "customs">>,
     <<"search", "rank", "rank_fallback", "weather", "customs">>}
CountOf(calls, c) == Cardinality({i \in 1..Len(calls) : calls[i] = c})
\* the step just taken made the summarization call
Summarized ==
    /\ Len(llm_calls') = Len(llm_calls) + 1
    /\ llm_calls'[Len(llm_calls')] = "summarize"
AfterResearch == pc \in {"prompt", "generate", "parsing", "enriching", "finalize"}

\* C21: one run of the fallback agent calls its tools in the fixed order
\* general search, category ranking, weather, local customs, five calls at
\* most (the fifth being the second attempt at the ranking), and then
\* makes exactly one summarization call to the generation client: the call
\* is made when all the tool calls are made, no tool call follows it, and
\* a run that returned made it once.
C21_FixedToolSequenceThenOneSummary ==
    /\ [](ResearchDone =>
            /\ tool_calls \in FixedOrders
            /\ Len(tool_calls) <= 5
            /\ CountOf(llm_calls, "summarize") = 0)
    /\ [][Summarized =>
            /\ ResearchDone
            /\ tool_calls \in FixedOrders
            /\ tool_calls' = <<>>]_vars
    /\ [](CountOf(llm_calls, "summarize") >= 1 => tool_calls = <<>>)
    /\ []((agent_executor = Some("simple") /\ AfterResearch) =>
            CountOf(llm_calls, "summarize") = 1)
    /\ [](CountOf(llm_calls, "summarize") <= 1)
C21_Witness ==
    /\ agent_executor = Some("simple")
    /\ pc = "prompt"
    /\ llm_calls = <<"summarize">>
    /\ agent_output = Some("summary")
    /\ tool_calls = <<>>

GenerationFailed == ~IsNone(raised) /\ Val(raised).stage = "generate"

\* C22: the final generation call is made at most once per request and
\* is not retried.  The step in which it fails ends the request with the
\* failure response made of its exception; no step of the request makes a
\* generation call after one was made, whether it failed, or answered and
\* the parse of the answer failed.
C22_GenerationNotRetried ==
    /\ [](CountOf(llm_calls, "generate") <= 1)
    /\ [][(pc = "generate" /\ pc' /= "parsing") =>
            /\ pc' = "done"
            /\ GenerationFailed'
            /\ Failed'
            /\ IsNone(llm_output')
            /\ CountOf(llm_calls', "generate") = 1]_vars
    /\ [][(CountOf(llm_calls, "generate") = 1 /\ pc' /= "init") => llm_calls' = llm_calls]_vars
    /\ []((pc = "done" /\ CountOf(llm_calls, "generate") = 1 /\ IsNone(llm_output)) =>
            (GenerationFailed /\ Failed))
C22_Witness ==
    /\ GenerationFailed
    /\ Failed
    /\ llm_calls = <<"summarize", "generate">>
    /\ Val(outcome).message.cause = Some(Exc("Exception", "generation call failed"))

\* the Locations of the report as parse built it, before enrichment
ParsedLocations == Locations(Val(norm_data))
LookupsAt(i) == Cardinality({k \in 1..Len(lookups) : lookups[k].at = i})
BothCoordinates(l) == ~IsNone(l.latitude) /\ ~IsNone(l.longitude)

\* C23: when the enrichment of a report is over, exactly one geocoding
\* call was made for each Location that had neither latitude nor longitude
\* and none for a Location that had both.
C23_OneLookupPerUnlocatedLocation ==
    Enriched =>
        \A i \in 1..Len(ParsedLocations) :
            /\ NoCoordinates(ParsedLocations[i]) => LookupsAt(i) = 1
            /\ BothCoordinates(ParsedLocations[i]) => LookupsAt(i) = 0

\* C24: the geocoding calls of one report are made one after the other
\* with a delay after each: a lookup starts only when the delay of every
\* lookup before it has returned, a delay is taken only after a lookup and
\* changes nothing, and when the enrichment is over there are as many
\* delays as lookups.
C24_DelayAfterEveryLookup ==
    /\ [][LookedUp => delays = Len(lookups)]_vars
    /\ [][delays' = delays + 1 =>
            /\ pc = "enriching" /\ pc' = "enriching"
            /\ delays < Len(lookups)
            /\ UNCHANGED <<lookups, cursor, itinerary>>]_vars
    /\ [](Len(lookups) - 1 <= delays /\ delays <= Len(lookups))
    /\ [](Enriched => delays = Len(lookups))
C24_Witness ==
    /\ Succeeded
    /\ Len(lookups) = 2
    /\ delays = 2
    /\ lookups[1].at = 1
    /\ lookups[2].at = 2

\* a Location, and a report, with the coordinates blanked
Uncoordinated(l) == [l EXCEPT !.latitude = None, !.longitude = None]
WithoutCoordinates(it) ==
    [it EXCEPT
        !.day_plans = [d \in 1..Len(it.day_plans) |->
            [it.day_plans[d] EXCEPT !.activities =
                [i \in 1..Len(it.day_plans[d].activities) |->
                    [it.day_plans[d].activities[i] EXCEPT
                        !.location = Uncoordinated(it.day_plans[d].activities[i].location)]]]],
        !.top_attractions = [i \in 1..Len(it.top_attractions) |->
                                Uncoordinated(it.top_attractions[i])],
        !.must_visit_places = [i \in 1..Len(it.must_visit_places) |->
                                Uncoordinated(it.must_visit_places[i])]]

\* C25: coordinate enrichment changes latitude and longitude only.  Every
\* step of the enrichment leaves the report, coordinates apart, as it was:
\* the other fields of every Location, Activity and DayPlan and of the
\* report, and the number and order of the day plans, activities,
\* attractions and places; the enriched report is the report parse built,
\* coordinates apart.
C25_EnrichmentChangesCoordinatesOnly ==
    /\ [][pc = "enriching" =>
            WithoutCoordinates(Val(itinerary')) = WithoutCoordinates(Val(itinerary))]_vars
    /\ [](pc \in {"enriching", "finalize"} =>
            WithoutCoordinates(Val(itinerary))
                = WithoutCoordinates(ItineraryReport(Val(norm_data))))
C25_Witness ==
    /\ pc = "finalize"
    /\ Len(lookups) = 1
    /\ ItineraryReport(Val(norm_data)).top_attractions = <<Loc(Some(45), None, None)>>
    /\ Val(itinerary).top_attractions = <<Loc(Some(45), Some(27), Some(85))>>

\* the two fields finalization assigns
FinalizationFields(it) == <<it.markdown_description, it.created_at>>
EnrichmentFinished ==
    /\ ~IsNone(norm_data)
    /\ ItineraryReportValid(Val(norm_data))
    /\ cursor = Len(LocationPaths(Val(itinerary))) + 1
    /\ delays = Len(lookups)
\* the step just taken assigned one of the two fields of the report
FinalizationAssigned ==
    /\ ~IsNone(itinerary) /\ ~IsNone(itinerary')
    /\ FinalizationFields(Val(itinerary')) /= FinalizationFields(Val(itinerary))

\* C26 as stated: a report has a markdown_description or a creation
\* timestamp only once parsing succeeded and enrichment is over; no report
\* and no description exist for a request whose parse failed.
C26_FinalizationFieldsSetOnlyAfterEnrichment ==
    /\ (~IsNone(itinerary) /\ FinalizationFields(Val(itinerary)) /= <<None, None>>) =>
            (Succeeded /\ EnrichmentFinished)
    /\ ParsingFailed => (IsNone(itinerary) /\ IsNone(Val(outcome).itinerary))

\* C26 amended: the service assigns markdown_description and created_at
\* only after parsing succeeded and enrichment is over, in the one step
\* that ends the request; until then the two fields are what the generated
\* object gave for them (null when it gave nothing), and finalization
\* overwrites them.  For a request whose parse failed there is no report
\* and the synthesizer does not run, and nothing changes the returned
\* report after finalization.
C26_FinalizationAssignsAfterEnrichment ==
    /\ [][FinalizationAssigned =>
            /\ pc = "finalize" /\ pc' = "done"
            /\ EnrichmentFinished
            /\ IsNone(raised')
            /\ Succeeded'
            /\ Val(itinerary').markdown_description
                    = Some(GenerateMarkdownDescription(Val(itinerary)))
            /\ Val(itinerary').created_at = Some(clock')]_vars
    /\ [](pc \in {"enriching", "finalize"} =>
            FinalizationFields(Val(itinerary))
                = FinalizationFields(ItineraryReport(Val(norm_data))))
    /\ [](ParsingFailed => (IsNone(itinerary) /\ IsNone(Val(outcome).itinerary)))
    /\ [][(Succeeded /\ pc' /= "init") =>
            UNCHANGED <<itinerary, outcome, lookups, delays, llm_calls>>]_vars
C26_Witness ==
    /\ Succeeded
    /\ Val(norm_data).markdown_description = Some(GeneratedMarkdown)
    /\ Val(norm_data).created_at = Some(GeneratedTimestamp)
    /\ Len(lookups) = 1
    /\ Report.markdown_description = Some(GenerateMarkdownDescription(Report))
    /\ Report.created_at = Some(clock)

\* C27: in every response of generate_itinerary success is true exactly
\* when the itinerary is not null, and the itinerary of a successful
\* response has its markdown_description and its created_at set, to the
\* description the synthesizer gives for it and to a reading of the clock.
C27_SuccessIffItinerary ==
    Returned =>
        /\ Val(outcome).success <=> ~IsNone(Val(outcome).itinerary)
        /\ Val(outcome).success =>
            /\ ~IsNone(Report.markdown_description)
            /\ ~IsNone(Report.created_at)
            /\ Report.markdown_description = Some(GenerateMarkdownDescription(Report))
            /\ Val(Report.created_at) \in 0..MaxClock
C27_Witness ==
    /\ Succeeded
    /\ lookups = <<>>
    /\ Report.total_days = 2
    /\ Len(Report.day_plans) = 2
    /\ ~IsNone(Report.markdown_description)
    /\ ~IsNone(Report.created_at)

NoDuration == pc /= "idle" /\ IsNone(request.duration)
NothingCalled ==
    /\ tool_calls = <<>> /\ tool_results = <<>>
    /\ IsNone(agent_output)
    /\ llm_calls = <<>> /\ IsNone(llm_output)
    /\ lookups = <<>>
FailedAt(stage) == Failed /\ ~IsNone(raised) /\ Val(raised).stage = stage

C29_PairSetTogether ==
    /\ [](IsNone(agent_executor) <=> IsNone(parser))
    /\ [](FailedAt("init") => ~PairSet)
    /\ [][(pc = "init" /\ ~PairSet) =>
            \/ pc' = "prepare" /\ PairSet' /\ creations' = creations + 1
            \/ FailedAt("init")' /\ UNCHANGED <<agent_executor, parser, creations>>]_vars
    /\ [][(pc = "init" /\ PairSet) =>
            (pc' = "prepare" /\ UNCHANGED <<agent_executor, parser, creations>>)]_vars
C29_Witness ==
    /\ FailedAt("init")
    /\ IsNone(agent_executor)
    /\ IsNone(parser)
    /\ creations = 0
    /\ ~IsNone(request.duration)

Responded == ~IsNone(http)

====
